---- MODULE Spec2Model ----
(***************************************************************************)
(* Model of apps/server/src/lib/xml-extractor.ts: the regex-based editor   *)
(* of the <implemented_features> section of app_spec.txt.                  *)
(*                                                                         *)
(* A JavaScript string is a sequence of tokens.  A token is either one     *)
(* character ("a", "&", " ", "\n", ...), the two-space indent unit "  ",   *)
(* or one whole tag ("<feature>", "</name>", ...).  The character tokens   *)
(* cannot spell a tag, so every regular expression of the source matches   *)
(* a token sequence exactly where it matches the character string.         *)
(***************************************************************************)
EXTENDS Integers, Sequences, FiniteSets, TLC

VARIABLES doc, call, steps, str, esc, back, stage

\* one call of getClaudeStatus: its position, the environment it reads
\* and its locals
VARIABLES pc, env, apiKeys, cli, auth

\* the sidebar store, the viewport and the useSidebarAutoCollapse hook
VARIABLES sidebarOpen, mediaMatches, rendered, listeners, hookCall, events

statusVars == <<pc, env, apiKeys, cli, auth>>

uiVars == <<sidebarOpen, mediaMatches, rendered, listeners, hookCall, events>>

vars == <<doc, call, steps, str, esc, back, stage, statusVars, uiVars>>

\* no call of getClaudeStatus is under way
StatusOff ==
    /\ pc = "off" /\ env = <<>> /\ apiKeys = <<>> /\ cli = <<>> /\ auth = <<>>

\* no component uses the hook
UiOff ==
    /\ sidebarOpen = FALSE /\ mediaMatches = FALSE /\ rendered = <<>>
    /\ listeners = {} /\ hookCall = <<>> /\ events = 0

\* JavaScript's null / undefined where a string is expected: a value no
\* string equals
NULL == <<"null">>

\* undefined where a list of strings is expected (a feature record without
\* the optional file_locations field)
NoList == <<NULL>>

-----------------------------------------------------------------------------
(* Generic string helpers (String.prototype methods used by the source)    *)

\* const x = v; In(x): a local constant, computed once
With(v, In(_)) == CHOOSE r \in { In(x) : x \in {v} } : TRUE

RECURSIVE FlattenRange(_, _, _)
FlattenRange(ss, lo, hi) ==
    IF lo > hi THEN <<>>
    ELSE IF lo = hi THEN ss[lo]
    ELSE FlattenRange(ss, lo, (lo + hi) \div 2)
         \o FlattenRange(ss, ((lo + hi) \div 2) + 1, hi)

\* Array.prototype.join('') of a sequence of strings
Flatten(ss) == With(ss, LAMBDA t : FlattenRange(t, 1, Len(t)))

\* s.startsWith(pat, i) with a 1-based index
StartsAt(s, pat, i) ==
    /\ i + Len(pat) - 1 <= Len(s)
    /\ \A k \in 1..Len(pat) : s[i + k - 1] = pat[k]

\* s.replace(/pat/g, rep) for a literal pattern that cannot overlap itself
\* (every pattern of the source is one character or an entity "&...;") and a
\* replacement without "$": each occurrence is replaced, the rest is kept
ReplaceAll(s, pat, rep) ==
    With(s, LAMBDA t :
        Flatten([i \in 1..Len(t) |->
                    IF StartsAt(t, pat, i) THEN rep
                    ELSE IF \E j \in 1..(i - 1) : StartsAt(t, pat, j) /\ i < j + Len(pat)
                         THEN <<>>
                         ELSE <<t[i]>>]))

\* the least element of a non-empty set of positions
Least(S) == CHOOSE i \in S : \A j \in S : i <= j

\* s.indexOf(pat), 1-based; 0 when absent (JavaScript's -1)
IndexOf(s, pat) ==
    With({ i \in 1..Len(s) : StartsAt(s, pat, i) },
         LAMBDA hits : IF hits = {} THEN 0 ELSE Least(hits))

\* s.slice(from - 1, to) with 1-based inclusive bounds
Slice(s, from, to) == IF from > to THEN <<>> ELSE SubSeq(s, from, to)

\* the characters String.prototype.trim removes
WhiteSpace == {" ", "  ", "\n"}

\* the characters the regular expression "." does not match
LineTerminators == {"\n"}

\* s.trim()
Trim(s) ==
    With(s, LAMBDA t :
        With({ i \in 1..Len(t) : t[i] \notin WhiteSpace }, LAMBDA keep :
            IF keep = {} THEN <<>>
            ELSE SubSeq(t, Least(keep), CHOOSE i \in keep : \A j \in keep : i >= j)))

\* one token of s.toLowerCase()
LowerTok(t) ==
    CASE t = "A" -> "a"
      [] t = "B" -> "b"
      [] t = "<IMPLEMENTED_FEATURES>" -> "<implemented_features>"
      [] t = "</IMPLEMENTED_FEATURES>" -> "</implemented_features>"
      [] t = "<FILE_LOCATIONS>" -> "<file_locations>"
      [] t = "</FILE_LOCATIONS>" -> "</file_locations>"
      [] OTHER -> t

\* s.toLowerCase()
ToLowerCase(s) == [i \in 1..Len(s) |-> LowerTok(s[i])]

-----------------------------------------------------------------------------
(* Escaping primitives                                                     *)

\* unescapeXml restoring the ampersand first instead of last
unescapeXmlAmpFirst(s) ==
    ReplaceAll(ReplaceAll(ReplaceAll(ReplaceAll(ReplaceAll(s,
        <<"&", "a", "m", "p", ";">>, <<"&">>),
        <<"&", "a", "p", "o", "s", ";">>, <<"'">>),
        <<"&", "q", "u", "o", "t", ";">>, <<"\"">>),
        <<"&", "g", "t", ";">>, <<">">>),
        <<"&", "l", "t", ";">>, <<"<">>)

escapeXml(s) ==
    IF s = NULL THEN <<>>
    ELSE ReplaceAll(ReplaceAll(ReplaceAll(ReplaceAll(ReplaceAll(s,
        <<"&">>, <<"&", "a", "m", "p", ";">>),
        <<"<">>, <<"&", "l", "t", ";">>),
        <<">">>, <<"&", "g", "t", ";">>),
        <<"\"">>, <<"&", "q", "u", "o", "t", ";">>),
        <<"'">>, <<"&", "a", "p", "o", "s", ";">>)

unescapeXml(s) ==
    ReplaceAll(ReplaceAll(ReplaceAll(ReplaceAll(ReplaceAll(s,
        <<"&", "a", "p", "o", "s", ";">>, <<"'">>),
        <<"&", "q", "u", "o", "t", ";">>, <<"\"">>),
        <<"&", "g", "t", ";">>, <<">">>),
        <<"&", "l", "t", ";">>, <<"<">>),
        <<"&", "a", "m", "p", ";">>, <<"&">>)

-----------------------------------------------------------------------------
(* Regular-expression matching                                             *)

NoMatch == [s |-> 0, e |-> 0]

\* the tokens a tag name matches as an opening tag; with the "i" flag the
\* upper-case spelling matches too
OpenTags(tagName, ignoreCase) ==
    CASE tagName = "implemented_features" ->
            IF ignoreCase THEN {"<implemented_features>", "<IMPLEMENTED_FEATURES>"}
                          ELSE {"<implemented_features>"}
      [] tagName = "file_locations" ->
            IF ignoreCase THEN {"<file_locations>", "<FILE_LOCATIONS>"}
                          ELSE {"<file_locations>"}
      [] tagName = "feature" -> {"<feature>"}
      [] tagName = "name" -> {"<name>"}
      [] tagName = "description" -> {"<description>"}
      [] tagName = "location" -> {"<location>"}

CloseTags(tagName, ignoreCase) ==
    CASE tagName = "implemented_features" ->
            IF ignoreCase THEN {"</implemented_features>", "</IMPLEMENTED_FEATURES>"}
                          ELSE {"</implemented_features>"}
      [] tagName = "file_locations" ->
            IF ignoreCase THEN {"</file_locations>", "</FILE_LOCATIONS>"}
                          ELSE {"</file_locations>"}
      [] tagName = "feature" -> {"</feature>"}
      [] tagName = "name" -> {"</name>"}
      [] tagName = "description" -> {"</description>"}
      [] tagName = "location" -> {"</location>"}

\* Where the lazy body of <tag>(X*?)</tag> ends for a match that opens at i:
\* at the first closing tag after i; 0 when there is none or when X is "."
\* and a line terminator stands in between.
MatchEnd(s, closes, dotAll, i) ==
    With({ j \in (i + 1)..Len(s) : s[j] \in closes }, LAMBDA js :
        IF js = {} THEN 0
        ELSE With(Least(js), LAMBDA j :
                IF dotAll \/ \A k \in (i + 1)..(j - 1) : s[k] \notin LineTerminators
                THEN j ELSE 0))

\* The leftmost match, at or after position from, of <tag>(X*?)</tag> where X
\* is [\s\S] (dotAll) or "."
RegexExec(s, tagName, ignoreCase, dotAll, from) ==
    With({ i \in from..Len(s) :
             /\ s[i] \in OpenTags(tagName, ignoreCase)
             /\ MatchEnd(s, CloseTags(tagName, ignoreCase), dotAll, i) # 0 },
         LAMBDA starts :
            IF starts = {} THEN NoMatch
            ELSE With(Least(starts), LAMBDA i :
                    [s |-> i, e |-> MatchEnd(s, CloseTags(tagName, ignoreCase), dotAll, i)]))

\* match[1]: the text of the capture group
Group1(s, m) == Slice(s, m.s + 1, m.e - 1)

RECURSIVE MatchAllFrom(_, _, _, _, _)
\* s.matchAll(regex) with the "g" flag: the captures, in order
MatchAllFrom(s, tagName, ignoreCase, dotAll, from) ==
    With(RegexExec(s, tagName, ignoreCase, dotAll, from), LAMBDA m :
        IF m = NoMatch THEN <<>>
        ELSE <<Group1(s, m)>> \o MatchAllFrom(s, tagName, ignoreCase, dotAll, m.e + 1))

-----------------------------------------------------------------------------
(* Section / element extraction                                            *)

extractXmlSection(xmlContent, tagName) ==
    With(RegexExec(xmlContent, tagName, TRUE, TRUE, 1), LAMBDA match :
        IF match # NoMatch THEN Group1(xmlContent, match) ELSE NULL)

extractXmlElements(xmlContent, tagName) ==
    With(MatchAllFrom(xmlContent, tagName, FALSE, FALSE, 1), LAMBDA matches :
        [k \in 1..Len(matches) |-> unescapeXml(Trim(matches[k]))])

\* JavaScript truthiness of a string-or-null value
Truthy(v) == v # NULL /\ v # <<>>

\* match ? unescapeXml(match[1].trim()) : ''
TextOf(content, match) ==
    IF match # NoMatch THEN unescapeXml(Trim(Group1(content, match))) ELSE <<>>

\* the body of the loop of extractImplementedFeatures for one <feature> block;
\* the result is a list of zero or one record
ParseFeature(featureContent) ==
    With(TextOf(featureContent, RegexExec(featureContent, "name", FALSE, FALSE, 1)),
         LAMBDA name :
    With(TextOf(featureContent, RegexExec(featureContent, "description", FALSE, FALSE, 1)),
         LAMBDA description :
    With(extractXmlSection(featureContent, "file_locations"),
         LAMBDA locationsSection :
    With(IF Truthy(locationsSection)
         THEN extractXmlElements(locationsSection, "location") ELSE NoList,
         LAMBDA file_locations :
        IF name # <<>>
        THEN << [name |-> name, description |-> description,
                 file_locations |-> IF file_locations # NoList /\ Len(file_locations) > 0
                                    THEN file_locations ELSE NoList] >>
        ELSE <<>>))))

extractImplementedFeatures(specContent) ==
    With(extractXmlSection(specContent, "implemented_features"),
         LAMBDA implementedSection :
        IF ~Truthy(implementedSection) THEN <<>>
        ELSE With(MatchAllFrom(implementedSection, "feature", FALSE, TRUE, 1),
                  LAMBDA featureMatches :
                Flatten([k \in 1..Len(featureMatches) |->
                            ParseFeature(featureMatches[k])])))

extractImplementedFeatureNames(specContent) ==
    With(extractImplementedFeatures(specContent), LAMBDA features :
        [k \in 1..Len(features) |-> features[k].name])

-----------------------------------------------------------------------------
(* Feature-to-text generation                                              *)

\* const indent = '  '
Indent == <<"  ">>

RECURSIVE JoinNL(_)
\* Array.prototype.join('\n')
JoinNL(ss) ==
    IF ss = <<>> THEN <<>>
    ELSE IF Len(ss) = 1 THEN ss[1]
    ELSE Head(ss) \o <<"\n">> \o JoinNL(Tail(ss))

\* the <file_locations> block of featureToXml
LocationsXml(locs, i3, i4) ==
    IF locs # NoList /\ Len(locs) > 0
    THEN <<"\n">> \o i3 \o <<"<file_locations>", "\n">>
         \o JoinNL([k \in 1..Len(locs) |->
                i4 \o <<"<location>">> \o escapeXml(locs[k]) \o <<"</location>">>])
         \o <<"\n">> \o i3 \o <<"</file_locations>">>
    ELSE <<>>

featureToXml(feature, indent) ==
    With(indent \o indent, LAMBDA i2 :
    With(indent \o indent \o indent, LAMBDA i3 :
    With(indent \o indent \o indent \o indent, LAMBDA i4 :
        i2 \o <<"<feature>", "\n">>
        \o i3 \o <<"<name>">> \o escapeXml(feature.name) \o <<"</name>", "\n">>
        \o i3 \o <<"<description>">> \o escapeXml(feature.description)
        \o <<"</description>">>
        \o LocationsXml(feature.file_locations, i3, i4)
        \o <<"\n">> \o i2 \o <<"</feature>">>)))

featuresToXml(features, indent) ==
    JoinNL([k \in 1..Len(features) |-> featureToXml(features[k], indent)])

-----------------------------------------------------------------------------
(* Section update / insertion policy                                       *)

\* the number of "$" that stand immediately before position i
DollarsBefore(rep, i) ==
    With({ j \in 1..(i - 1) : rep[j] # "$" }, LAMBDA stops :
        IF stops = {} THEN i - 1
        ELSE i - 1 - (CHOOSE j \in stops : \A k \in stops : j >= k))

\* a "$" at position i opens a replacement pattern: "$", "&", "`" or "'"
\* follows and the "$" is not itself the second character of a "$$" (an even
\* number of "$" stand before it)
OpensPattern(rep, i) ==
    /\ i >= 1 /\ i < Len(rep)
    /\ rep[i] = "$"
    /\ rep[i + 1] \in {"$", "&", "`", "'"}
    /\ DollarsBefore(rep, i) % 2 = 0

\* The replacement text String.prototype.replace builds from a replacement
\* string, read left to right: "$$" is "$", "$&" the matched text, "$`" the
\* text before the match and "$'" the text after it.  The pattern has no
\* capture group, so "$1" and "$<" stay as they are.
GetSubstitution(rep, matched, before, after) ==
    Flatten([i \in 1..Len(rep) |->
        IF OpensPattern(rep, i)
        THEN CASE rep[i + 1] = "$" -> <<"$">>
               [] rep[i + 1] = "&" -> matched
               [] rep[i + 1] = "`" -> before
               [] rep[i + 1] = "'" -> after
        ELSE IF OpensPattern(rep, i - 1) THEN <<>>
        ELSE <<rep[i]>>])

\* the new section built from the feature list
NewSection(newFeatures) ==
    <<"<implemented_features>", "\n">> \o featuresToXml(newFeatures, Indent)
    \o <<"\n">> \o Indent \o <<"</implemented_features>">>

coreCapabilitiesEnd == <<"</core_capabilities>">>

projectSpecEnd == <<"</project_specification>">>

\* specContent.replace(sectionRegex, newSection) for the match m
ReplaceMatch(specContent, m, newSection) ==
    With(Slice(specContent, 1, m.s - 1), LAMBDA before :
    With(Slice(specContent, m.e + 1, Len(specContent)), LAMBDA after :
        before
        \o GetSubstitution(newSection, Slice(specContent, m.s, m.e), before, after)
        \o after))

\* the insertion after </core_capabilities>, found at insertIndex
InsertAfterCore(specContent, insertIndex, newSection) ==
    With(insertIndex + Len(coreCapabilitiesEnd) - 1, LAMBDA insertPosition :
        Slice(specContent, 1, insertPosition)
        \o <<"\n", "\n">> \o Indent \o newSection
        \o Slice(specContent, insertPosition + 1, Len(specContent)))

\* the insertion before </project_specification>, found at fallbackIndex
InsertBeforeEnd(specContent, fallbackIndex, newSection) ==
    Slice(specContent, 1, fallbackIndex - 1)
    \o Indent \o newSection \o <<"\n">>
    \o Slice(specContent, fallbackIndex, Len(specContent))

\* updateImplementedFeaturesSection trying </project_specification> before
\* </core_capabilities>
updateImplementedFeaturesSectionFallbackFirst(specContent, newFeatures) ==
    With(NewSection(newFeatures), LAMBDA newSection :
    With(RegexExec(specContent, "implemented_features", FALSE, TRUE, 1), LAMBDA m :
    With(IndexOf(specContent, coreCapabilitiesEnd), LAMBDA insertIndex :
    With(IndexOf(specContent, projectSpecEnd), LAMBDA fallbackIndex :
        IF m # NoMatch THEN ReplaceMatch(specContent, m, newSection)
        ELSE IF fallbackIndex # 0
        THEN InsertBeforeEnd(specContent, fallbackIndex, newSection)
        ELSE IF insertIndex # 0
        THEN InsertAfterCore(specContent, insertIndex, newSection)
        ELSE specContent))))

updateImplementedFeaturesSection(specContent, newFeatures) ==
    With(NewSection(newFeatures), LAMBDA newSection :
    With(RegexExec(specContent, "implemented_features", FALSE, TRUE, 1), LAMBDA m :
    With(IndexOf(specContent, coreCapabilitiesEnd), LAMBDA insertIndex :
    With(IndexOf(specContent, projectSpecEnd), LAMBDA fallbackIndex :
        IF m # NoMatch THEN ReplaceMatch(specContent, m, newSection)
        ELSE IF insertIndex # 0
        THEN InsertAfterCore(specContent, insertIndex, newSection)
        ELSE IF fallbackIndex # 0
        THEN InsertBeforeEnd(specContent, fallbackIndex, newSection)
        ELSE specContent))))

-----------------------------------------------------------------------------
(* Feature CRUD wrappers                                                   *)

\* existingFeatures.some(f => f.name.toLowerCase() === name.toLowerCase())
SomeNamed(features, name) ==
    \E k \in 1..Len(features) : ToLowerCase(features[k].name) = ToLowerCase(name)

addImplementedFeature(specContent, newFeature) ==
    With(extractImplementedFeatures(specContent), LAMBDA existingFeatures :
        IF SomeNamed(existingFeatures, newFeature.name) THEN specContent
        ELSE updateImplementedFeaturesSection(specContent,
                                              Append(existingFeatures, newFeature)))

\* existingFeatures.filter(f => f.name.toLowerCase() !== name.toLowerCase())
NotNamed(features, name) ==
    SelectSeq(features, LAMBDA f : ToLowerCase(f.name) # ToLowerCase(name))

\* removeImplementedFeature without the early return: the section is written
\* back even when no feature was removed
removeImplementedFeatureAlwaysWrites(specContent, featureName) ==
    With(extractImplementedFeatures(specContent), LAMBDA existingFeatures :
    With(NotNamed(existingFeatures, featureName), LAMBDA updatedFeatures :
        updateImplementedFeaturesSection(specContent, updatedFeatures)))

removeImplementedFeature(specContent, featureName) ==
    With(extractImplementedFeatures(specContent), LAMBDA existingFeatures :
    With(NotNamed(existingFeatures, featureName), LAMBDA updatedFeatures :
        IF Len(updatedFeatures) = Len(existingFeatures) THEN specContent
        ELSE updateImplementedFeaturesSection(specContent, updatedFeatures)))

\* a field a Partial<ImplementedFeature> does not have (NULL is a field that
\* is there and undefined)
ABSENT == <<"absent">>

AbsentList == <<ABSENT>>

\* { ...f, ...updates, name: updates.name ?? f.name }
MergeFeature(f, updates) ==
    [name |-> IF updates.name \in {ABSENT, NULL} THEN f.name ELSE updates.name,
     description |-> IF updates.description = ABSENT THEN f.description
                     ELSE updates.description,
     file_locations |-> IF updates.file_locations = AbsentList THEN f.file_locations
                        ELSE updates.file_locations]

updateImplementedFeature(specContent, featureName, updates) ==
    With(extractImplementedFeatures(specContent), LAMBDA existingFeatures :
    With([k \in 1..Len(existingFeatures) |->
            IF ToLowerCase(existingFeatures[k].name) = ToLowerCase(featureName)
            THEN MergeFeature(existingFeatures[k], updates)
            ELSE existingFeatures[k]],
         LAMBDA updatedFeatures :
        IF ~SomeNamed(existingFeatures, featureName) THEN specContent
        ELSE updateImplementedFeaturesSection(specContent, updatedFeatures)))

hasImplementedFeature(specContent, featureName) ==
    SomeNamed(extractImplementedFeatures(specContent), featureName)

-----------------------------------------------------------------------------
(* Inputs                                                                  *)

\* the number of CRUD calls applied in a row to one document
MaxSteps == 2

\* the longest feature list handed to updateImplementedFeaturesSection
MaxFeatures == 2

\* the number of chunks an escaping input is made of
MaxChunks == 3

F(n, d, l) == [name |-> n, description |-> d, file_locations |-> l]

NameSet == { <<"a">>, <<"A">>, <<"b">>, <<" ", "a">>, <<"$", "$">>, <<"&">>, <<>> }

\* every name with the plain record, and two records that exercise the
\* description and the file locations
FeatureSet ==
    { F(n, <<>>, NoList) : n \in NameSet }
    \cup { F(<<"b">>, <<"a", "\n", "b">>, << <<"p">> >>), F(<<"A">>, <<"<">>, <<>>) }

UpdatesSet ==
    { F(ABSENT, <<"b">>, AbsentList), F(<<"b">>, ABSENT, AbsentList),
      F(ABSENT, ABSENT, << <<"p">> >>), F(NULL, NULL, AbsentList),
      F(<<"$", "$">>, ABSENT, <<>>), F(ABSENT, <<"a", "\n", "b">>, AbsentList) }

\* a document with no section and no insertion point
DocBare == <<"x">>

\* a document with both insertion points and no section
DocCore ==
    <<"<project_specification>", "\n", "  ", "<core_capabilities>", "x",
      "</core_capabilities>", "\n", "</project_specification>">>

\* a document with the fallback insertion point only
DocProject == <<"<project_specification>", "\n", "</project_specification>", "\n">>

\* a hand-written section: one feature, padded name, multi-line description
DocHand ==
    <<"<project_specification>", "\n",
      "<implemented_features>", "\n",
      "<feature>", "<name>", " ", "a", " ", "</name>",
      "<description>", "a", "\n", "b", "</description>", "</feature>", "\n",
      "</implemented_features>", "\n", "</project_specification>">>

\* a section of two features, the second with file locations, after
\* core_capabilities
DocTwo ==
    <<"<core_capabilities>", "</core_capabilities>", "\n",
      "<implemented_features>", "\n",
      "<feature>", "\n", "<name>", "a", "</name>", "\n",
      "<description>", "&", "l", "t", ";", "</description>", "\n", "</feature>", "\n",
      "<feature>", "\n", "<name>", "b", "</name>", "\n",
      "<description>", "</description>", "\n",
      "<file_locations>", "\n", "<location>", "p", "</location>", "\n",
      "</file_locations>", "\n", "</feature>", "\n",
      "</implemented_features>", "\n">>

\* a section whose tags are written in upper case, and no insertion point
DocUpper ==
    <<"<IMPLEMENTED_FEATURES>", "<feature>", "<name>", "a", "</name>",
      "<description>", "</description>", "</feature>", "</IMPLEMENTED_FEATURES>">>

\* an empty section
DocEmpty == <<"x", "<implemented_features>", "</implemented_features>", "x">>

\* a section with a nameless feature and a feature named "$&"
DocOdd ==
    <<"<implemented_features>", "\n",
      "<feature>", "<description>", "b", "</description>", "</feature>", "\n",
      "<feature>", "<name>", "$", "&", "a", "m", "p", ";", "</name>", "</feature>", "\n",
      "</implemented_features>", "</project_specification>">>

InitDocs == { DocBare, DocCore, DocProject, DocHand, DocTwo, DocUpper, DocEmpty, DocOdd }

NoFeature == F(<<>>, <<>>, NoList)

NoCall == [op |-> "init", d |-> <<>>, name |-> <<>>, feature |-> NoFeature,
           list |-> <<>>, r |-> <<>>, flag |-> FALSE]

-----------------------------------------------------------------------------
(* The CRUD calls, each applied to the document the previous call returned *)

Init ==
    /\ doc \in InitDocs
    /\ call = NoCall
    /\ steps = 0
    /\ str = <<>> /\ esc = <<>> /\ back = <<>> /\ stage = "off"
    /\ StatusOff /\ UiOff

Add(f) ==
    /\ steps < MaxSteps
    /\ doc' = addImplementedFeature(doc, f)
    /\ call' = [NoCall EXCEPT !.op = "add", !.d = doc, !.feature = f, !.r = doc']
    /\ steps' = steps + 1
    /\ UNCHANGED <<str, esc, back, stage, statusVars, uiVars>>

Remove(n) ==
    /\ steps < MaxSteps
    /\ doc' = removeImplementedFeature(doc, n)
    /\ call' = [NoCall EXCEPT !.op = "remove", !.d = doc, !.name = n, !.r = doc']
    /\ steps' = steps + 1
    /\ UNCHANGED <<str, esc, back, stage, statusVars, uiVars>>

Update(n, u) ==
    /\ steps < MaxSteps
    /\ doc' = updateImplementedFeature(doc, n, u)
    /\ call' = [NoCall EXCEPT !.op = "update", !.d = doc, !.name = n, !.feature = u,
                              !.r = doc']
    /\ steps' = steps + 1
    /\ UNCHANGED <<str, esc, back, stage, statusVars, uiVars>>

Extract ==
    /\ call' = [NoCall EXCEPT !.op = "extract", !.d = doc,
                              !.list = extractImplementedFeatures(doc)]
    /\ UNCHANGED <<doc, steps, str, esc, back, stage, statusVars, uiVars>>

Next ==
    \/ \E f \in FeatureSet : Add(f)
    \/ \E n \in NameSet : Remove(n)
    \/ \E n \in NameSet, u \in UpdatesSet : Update(n, u)
    \/ Extract

Spec == Init /\ [][Next]_vars

-----------------------------------------------------------------------------
(* updateImplementedFeaturesSection applied to a document and a list       *)

SectionFeatureSet ==
    { F(<<"a">>, <<>>, NoList), F(<<"A">>, <<"<">>, NoList),
      F(<<"b">>, <<"a", "\n", "b">>, << <<"p">>, <<"&">> >>),
      F(<<" ", "a">>, <<>>, <<>>), F(<<"$", "$">>, <<>>, NoList),
      F(<<"$", "&">>, <<"b">>, NoList) }

\* the lists of at most n features
RECURSIVE FeatureLists(_)
FeatureLists(n) ==
    IF n = 0 THEN { <<>> }
    ELSE FeatureLists(n - 1)
         \cup { Append(l, f) : l \in { x \in FeatureLists(n - 1) : Len(x) = n - 1 },
                               f \in SectionFeatureSet }

InitSection ==
    /\ doc \in InitDocs
    /\ call = NoCall
    /\ steps = 0
    /\ str = <<>> /\ esc = <<>> /\ back = <<>> /\ stage = "off"
    /\ StatusOff /\ UiOff

UpdateSection(fs) ==
    /\ call.op = "init"
    /\ doc' = updateImplementedFeaturesSection(doc, fs)
    /\ call' = [NoCall EXCEPT !.op = "updateSection", !.d = doc, !.list = fs, !.r = doc']
    /\ UNCHANGED <<steps, str, esc, back, stage, statusVars, uiVars>>

ExtractSection ==
    /\ call.op = "updateSection"
    /\ call' = [NoCall EXCEPT !.op = "extract", !.d = doc,
                              !.list = extractImplementedFeatures(doc)]
    /\ UNCHANGED <<doc, steps, str, esc, back, stage, statusVars, uiVars>>

NextSection ==
    \/ \E fs \in FeatureLists(MaxFeatures) : UpdateSection(fs)
    \/ ExtractSection

SpecSection == InitSection /\ [][NextSection]_vars

-----------------------------------------------------------------------------
(* escapeXml followed by unescapeXml                                       *)

EscChunks ==
    { <<"&">>, <<"<">>, <<">">>, <<"\"">>, <<"'">>, <<"a">>,
      <<"&", "l", "t", ";">>, <<"&", "a", "m", "p", ";">>,
      <<"a", "m", "p", ";">>, <<"l", "t", ";">> }

\* the strings made of at most n chunks
EscInputs(n) == UNION { { Flatten(cs) : cs \in [1..k -> EscChunks] } : k \in 0..n }

InitEscape ==
    /\ str \in EscInputs(MaxChunks) \cup {NULL}
    /\ esc = <<>> /\ back = <<>> /\ stage = "input"
    /\ doc = <<>> /\ call = NoCall /\ steps = 0
    /\ StatusOff /\ UiOff

Escape ==
    /\ stage = "input"
    /\ esc' = escapeXml(str)
    /\ stage' = "escaped"
    /\ UNCHANGED <<doc, call, steps, str, back, statusVars, uiVars>>

Unescape ==
    /\ stage = "escaped"
    /\ back' = unescapeXml(esc)
    /\ stage' = "unescaped"
    /\ UNCHANGED <<doc, call, steps, str, esc, statusVars, uiVars>>

NextEscape == Escape \/ Unescape

SpecEscape == InitEscape /\ [][NextEscape]_vars

-----------------------------------------------------------------------------
(* Properties                                                              *)

\* pairwise distinct under case-insensitive comparison
UniqueNames(names) ==
    \A i, j \in 1..Len(names) :
        ToLowerCase(names[i]) = ToLowerCase(names[j]) => i = j

NamesOf(features) == [k \in 1..Len(features) |-> features[k].name]

\* a record as a reader sees it: an empty file_locations list is no list
Norm(f) == [f EXCEPT !.file_locations = IF @ = <<>> THEN NoList ELSE @]

NormAll(features) == [k \in 1..Len(features) |-> Norm(features[k])]

SectionTags ==
    {"<implemented_features>", "</implemented_features>",
     "<IMPLEMENTED_FEATURES>", "</IMPLEMENTED_FEATURES>"}

\* the document has no implemented_features tag at all, or exactly one
\* opening and one closing tag, in this order
WellFormedOrAbsent(d) ==
    LET tags == { i \in 1..Len(d) : d[i] \in SectionTags }
    IN  \/ tags = {}
        \/ \E i, j \in tags :
              /\ tags = {i, j} /\ i < j
              /\ d[i] = "<implemented_features>" /\ d[j] = "</implemented_features>"

\* ---- C9 -------------------------------------------------------------------
\* C9: unescapeXml(escapeXml(s)) is s for every string s, strings that look
\* like entities included, and escapeXml(null) is the empty string.
C9_EscapeRoundTrip ==
    /\ stage = "unescaped" /\ str # NULL => back = str
    /\ stage # "input" /\ str = NULL => esc = <<>>

\* an input that already looks like an entity has gone through both functions
C9_Witness ==
    /\ stage = "unescaped"
    /\ str = <<"&", "a", "m", "p", ";", "a", "m", "p", ";">>
    /\ esc # str

\* ---- C8 -------------------------------------------------------------------
\* C8: removeImplementedFeature and updateImplementedFeature return the
\* document itself when no parsed feature has the name, and
\* addImplementedFeature returns it when a parsed feature has the new
\* feature's name (case-insensitively).
C8_NoOp ==
    LET features == extractImplementedFeatures(call.d)
    IN  /\ call.op \in {"remove", "update"} /\ ~SomeNamed(features, call.name)
            => call.r = call.d
        /\ call.op = "add" /\ SomeNamed(features, call.feature.name)
            => call.r = call.d

\* a removal that found nothing, on a document whose section would read
\* differently had it been written back
C8_Witness ==
    /\ call.op = "remove"
    /\ ~SomeNamed(extractImplementedFeatures(call.d), call.name)
    /\ updateImplementedFeaturesSection(call.d, extractImplementedFeatures(call.d)) # call.d
    /\ call.r = call.d

\* ---- C6 -------------------------------------------------------------------
\* C6: updateImplementedFeaturesSection replaces the first
\* <implemented_features>...</implemented_features> span in place; else
\* inserts the new section right after the first </core_capabilities>; else
\* right before the first </project_specification>; else returns the
\* document as it is.  The text outside the section is kept in every case.
FirstIndex(d, tok) ==
    LET hits == { i \in 1..Len(d) : d[i] = tok }
    IN  IF hits = {} THEN 0 ELSE CHOOSE i \in hits : \A j \in hits : i <= j

C6_Policy(d, fs, r) ==
    LET open == FirstIndex(d, "<implemented_features>")
        closes == { j \in (open + 1)..Len(d) : d[j] = "</implemented_features>" }
        hasSection == open # 0 /\ closes # {}
        close == CHOOSE j \in closes : \A k \in closes : j <= k
        core == FirstIndex(d, "</core_capabilities>")
        proj == FirstIndex(d, "</project_specification>")
        section == <<"<implemented_features>", "\n">> \o featuresToXml(fs, Indent)
                   \o <<"\n", "  ", "</implemented_features>">>
        rest == Len(d) - close
    IN  IF hasSection
        THEN /\ Len(r) >= (open - 1) + 2 + rest
             /\ Slice(r, 1, open - 1) = Slice(d, 1, open - 1)
             /\ Slice(r, Len(r) - rest + 1, Len(r)) = Slice(d, close + 1, Len(d))
             /\ r[open] = "<implemented_features>"
             /\ r[Len(r) - rest] = "</implemented_features>"
             /\ (\A i \in 1..Len(section) : section[i] # "$")
                    => r = Slice(d, 1, open - 1) \o section \o Slice(d, close + 1, Len(d))
        ELSE IF core # 0
        THEN r = Slice(d, 1, core) \o <<"\n", "\n", "  ">> \o section
                 \o Slice(d, core + 1, Len(d))
        ELSE IF proj # 0
        THEN r = Slice(d, 1, proj - 1) \o <<"  ">> \o section \o <<"\n">>
                 \o Slice(d, proj, Len(d))
        ELSE r = d

C6_InsertionPolicy ==
    call.op = "updateSection" => C6_Policy(call.d, call.list, call.r)

\* a document without a section that has both closing tags: the section went
\* after </core_capabilities>
C6_Witness ==
    /\ call.op = "updateSection"
    /\ FirstIndex(call.d, "<implemented_features>") = 0
    /\ FirstIndex(call.d, "</core_capabilities>") # 0
    /\ FirstIndex(call.d, "</project_specification>") # 0
    /\ Len(call.list) > 0
    /\ call.r # call.d

\* a feature record of the data model: a name that is not empty and is its
\* own trimmed, single-line form
ValidRecord(f) ==
    /\ f.name # <<>>
    /\ Trim(f.name) = f.name
    /\ \A i \in 1..Len(f.name) : f.name[i] \notin LineTerminators

\* the document offers a place to write the section to: the section itself
\* or one of the two closing tags
HasPlace(d) ==
    \E i \in 1..Len(d) :
        d[i] \in {"<implemented_features>", "</core_capabilities>",
                  "</project_specification>"}

\* ---- C1 -------------------------------------------------------------------
\* C1: for a list fs with case-insensitively unique names and a document d
\* with a well-formed section or none, the features read back from
\* updateImplementedFeaturesSection(d, fs) are fs, in order.  Stated for the
\* documents the insertion policy can write to and for records of the data
\* model, where the claim fails all the same.
C1_WriteReadRoundTrip ==
    /\ call.op = "updateSection"
    /\ UniqueNames(NamesOf(call.list))
    /\ \A k \in 1..Len(call.list) : ValidRecord(call.list[k])
    /\ WellFormedOrAbsent(call.d) /\ HasPlace(call.d)
    => extractImplementedFeatures(call.r) = NormAll(call.list)

\* ---- C2 -------------------------------------------------------------------
\* C2: adding the same feature a second time returns the document the first
\* addition returned.
C2_AddIdempotent ==
    call.op = "add" => addImplementedFeature(call.r, call.feature) = call.r

\* ---- C3 -------------------------------------------------------------------
\* C3: when the new feature's name collides with no parsed feature of d, the
\* features of addImplementedFeature(d, f) are those of d followed by f, and
\* hasImplementedFeature finds f.  Stated for the documents the insertion
\* policy can write to and for records of the data model, where the claim
\* fails all the same.
C3_AddAppends ==
    /\ call.op = "add"
    /\ ~SomeNamed(extractImplementedFeatures(call.d), call.feature.name)
    /\ ValidRecord(call.feature)
    /\ WellFormedOrAbsent(call.d) /\ HasPlace(call.d)
    => /\ extractImplementedFeatures(call.r)
            = Append(extractImplementedFeatures(call.d), Norm(call.feature))
       /\ hasImplementedFeature(call.r, call.feature.name)

\* ---- C4 -------------------------------------------------------------------
\* C4: after removeImplementedFeature(d, n), hasImplementedFeature of the
\* returned document and n is false.
C4_RemoveEffective ==
    call.op = "remove" => ~hasImplementedFeature(call.r, call.name)

\* ---- C5 -------------------------------------------------------------------
\* C5: from a document with case-insensitively unique feature names, every
\* sequence of add, remove and update calls leaves the names unique.  (Every
\* initial document of Spec has unique names.)
C5_NamesStayUnique ==
    /\ \A d \in InitDocs : UniqueNames(extractImplementedFeatureNames(d))
    /\ UniqueNames(extractImplementedFeatureNames(doc))

\* ---- C7 -------------------------------------------------------------------
\* C7: when updateImplementedFeature(d, n, u) matches, the matched record of
\* the result has u's value in every field u supplies and its old value in
\* every other field; the other records are unchanged and the order is kept.
\* Stated for documents whose section is well formed, where the claim fails
\* all the same.
Supplied(v) == v # ABSENT /\ v # NULL

C7_Expected(f, u) ==
    Norm([name |-> IF Supplied(u.name) THEN u.name ELSE f.name,
          description |-> IF Supplied(u.description) THEN u.description
                          ELSE f.description,
          file_locations |-> IF u.file_locations # AbsentList THEN u.file_locations
                             ELSE f.file_locations])

C7_PartialUpdate ==
    LET old == extractImplementedFeatures(call.d)
    IN  call.op = "update" /\ SomeNamed(old, call.name) /\ WellFormedOrAbsent(call.d)
        => extractImplementedFeatures(call.r)
             = [k \in 1..Len(old) |->
                   IF ToLowerCase(old[k].name) = ToLowerCase(call.name)
                   THEN C7_Expected(old[k], call.feature)
                   ELSE old[k]]

\* ---- C10 ------------------------------------------------------------------
\* C10: extractImplementedFeatures returns, in document order, one record
\* per <feature> block of the first section whose <name> element is there
\* and not empty once trimmed; name and description are the trimmed,
\* unescaped text of the element ('' for the description when the element
\* is missing); file_locations is there only with a <location>; no section,
\* no record.
\* the text of the first <tag>...</tag> element of a block, NULL without one
ElementText(block, open, close) ==
    LET i == FirstIndex(block, open)
        js == { j \in (i + 1)..Len(block) : block[j] = close }
    IN  IF i = 0 \/ js = {} THEN NULL
        ELSE Slice(block, i + 1, (CHOOSE j \in js : \A k \in js : j <= k) - 1)

C10_Record(block) ==
    LET n == ElementText(block, "<name>", "</name>")
        d == ElementText(block, "<description>", "</description>")
        locs == ParseFeature(<<"<name>", "a", "</name>">> \o block)[1].file_locations
    IN  IF n = NULL \/ Trim(n) = <<>> THEN <<>>
        ELSE << [name |-> unescapeXml(Trim(n)),
                 description |-> IF d = NULL THEN <<>> ELSE unescapeXml(Trim(d)),
                 file_locations |-> locs] >>

C10_Records(d) ==
    LET section == extractXmlSection(d, "implemented_features")
        blocks == IF section = NULL THEN <<>>
                  ELSE MatchAllFrom(section, "feature", FALSE, TRUE, 1)
    IN  Flatten([k \in 1..Len(blocks) |-> C10_Record(blocks[k])])

C10_ExtractRecords ==
    call.op = "extract" => call.list = C10_Records(call.d)

-----------------------------------------------------------------------------
(* getClaudeStatus: the Claude CLI detection and authentication probe.     *)
(* The function is async: every await is a point where other handlers of   *)
(* the server run, so each stretch of code between two awaits is one       *)
(* action, and the in-memory key store can change between two actions.     *)
(* A file or command is read when the code reads it.  process.env is read  *)
(* once, so env is its value at that read.                                 *)

editorVars == <<doc, call, steps, str, esc, back, stage>>

\* the XML editor is not in use
EditorOff ==
    /\ doc = <<>> /\ call = NoCall /\ steps = 0
    /\ str = <<>> /\ esc = <<>> /\ back = <<>> /\ stage = "off"

\* a key, a token or an environment variable: undefined, '' or a value
KeyValues == {NULL, <<>>, <<"k">>}

KeyNames == {"anthropic_oauth_token", "anthropic"}

\* getApiKey(provider): the in-memory store apiKeys
getApiKey(provider) == apiKeys[provider]

\* stdout of 'which claude' / 'where claude' (NULL: the command fails)
FindOutputs == {NULL, <<"p", "\n">>, <<"p", "\n", "q", "\n">>}

\* stdout of 'claude --version' (NULL: the command fails)
VersionOutputs == {NULL, <<"v", "\n">>}

\* stdout.trim().split(/\r?\n/)[0]
FirstLine(stdout) ==
    With(Trim(stdout), LAMBDA t :
        With(IndexOf(t, <<"\n">>), LAMBDA i :
            IF i = 0 THEN t ELSE Slice(t, 1, i - 1)))

\* version = versionOut.trim(), '' when the command throws
VersionOf(versionOut) == IF versionOut = NULL THEN <<>> ELSE Trim(versionOut)

NotInstalled ==
    [installed |-> FALSE, version |-> <<>>, cliPath |-> <<>>, method |-> "none"]

\* the outcome of the detection: on the PATH, else at the first common
\* location that can be accessed (NULL: none), else not installed
FindCli(stdout, common, versionOut) ==
    IF stdout # NULL
    THEN [installed |-> TRUE, version |-> VersionOf(versionOut),
          cliPath |-> FirstLine(stdout), method |-> "path"]
    ELSE IF common # NULL
    THEN [installed |-> TRUE, version |-> VersionOf(versionOut),
          cliPath |-> common, method |-> "local"]
    ELSE NotInstalled

\* let auth = { ... }
NewAuth ==
    [authenticated |-> FALSE,
     method |-> "none",
     hasCredentialsFile |-> FALSE,
     hasToken |-> FALSE,
     hasStoredOAuthToken |-> Truthy(getApiKey("anthropic_oauth_token")),
     hasStoredApiKey |-> Truthy(getApiKey("anthropic")),
     hasEnvApiKey |-> Truthy(env),
     oauthTokenValid |-> FALSE,
     apiKeyValid |-> FALSE,
     hasCliAuth |-> FALSE,
     hasRecentActivity |-> FALSE]

\* stats-cache.json: no file, not JSON, the JSON value null, an object
\* without dailyActivity, with an empty one, with a non-empty one
StatsFiles == {"missing", "invalid", "null", "noField", "empty", "activity"}

\* stats.dailyActivity && stats.dailyActivity.length > 0; readFile,
\* JSON.parse and the property read of null throw into the empty catch
HasActivity(stats) == stats = "activity"

AfterStats(a, stats) ==
    IF HasActivity(stats)
    THEN [a EXCEPT !.hasRecentActivity = TRUE, !.hasCliAuth = TRUE,
                   !.authenticated = TRUE, !.method = "cli_authenticated"]
    ELSE a

\* readdir of the projects directory: it throws, or lists 0 or more entries
ProjectsDirs == {"missing", "empty", "some"}

AfterSettings(a, hasSettings, sessions) ==
    IF hasSettings /\ ~a.hasCliAuth /\ sessions = "some"
    THEN [a EXCEPT !.hasCliAuth = TRUE, !.authenticated = TRUE,
                   !.method = "cli_authenticated"]
    ELSE a

\* a credentials file: no file, not JSON, the JSON value null, or an object
\* with the listed fields
CredentialsFiles ==
    {"missing", "invalid", "null", "none", "oauth_token", "access_token",
     "api_key", "oauth_token+api_key"}

\* JSON.parse(await fs.readFile(...)) returns
Parses(credentials) == credentials \notin {"missing", "invalid"}

\* the body of the try block of the credentials loop returns without
\* throwing, so the loop breaks
Breaks(credentials) == Parses(credentials) /\ credentials # "null"

\* one iteration of the credentials loop
AfterCredentials(a, credentials) ==
    IF ~Parses(credentials) THEN a
    ELSE IF credentials = "null" THEN [a EXCEPT !.hasCredentialsFile = TRUE]
    ELSE IF credentials \in {"oauth_token", "access_token", "oauth_token+api_key"}
    THEN [a EXCEPT !.hasCredentialsFile = TRUE, !.hasStoredOAuthToken = TRUE,
                   !.oauthTokenValid = TRUE, !.authenticated = TRUE,
                   !.method = "oauth_token"]
    ELSE IF credentials = "api_key"
    THEN [a EXCEPT !.hasCredentialsFile = TRUE, !.apiKeyValid = TRUE,
                   !.authenticated = TRUE, !.method = "api_key"]
    ELSE [a EXCEPT !.hasCredentialsFile = TRUE]

\* if (auth.hasEnvApiKey) { ... }
EnvOverride(a) ==
    IF a.hasEnvApiKey
    THEN [a EXCEPT !.authenticated = TRUE, !.apiKeyValid = TRUE,
                   !.method = "api_key_env"]
    ELSE a

\* the stored OAuth token block without its !auth.authenticated guard
StoredOAuthTokenUnguarded(a) ==
    IF Truthy(getApiKey("anthropic_oauth_token"))
    THEN [a EXCEPT !.authenticated = TRUE, !.oauthTokenValid = TRUE,
                   !.method = "oauth_token"]
    ELSE a

\* if (!auth.authenticated && getApiKey("anthropic_oauth_token")) { ... }
StoredOAuthToken(a) ==
    IF ~a.authenticated /\ Truthy(getApiKey("anthropic_oauth_token"))
    THEN [a EXCEPT !.authenticated = TRUE, !.oauthTokenValid = TRUE,
                   !.method = "oauth_token"]
    ELSE a

\* if (!auth.authenticated && getApiKey("anthropic")) { ... }
StoredApiKey(a) ==
    IF ~a.authenticated /\ Truthy(getApiKey("anthropic"))
    THEN [a EXCEPT !.authenticated = TRUE, !.apiKeyValid = TRUE,
                   !.method = "api_key"]
    ELSE a

\* the three blocks after the credentials loop, in the order of the source
ResolveAuth(a) == StoredApiKey(StoredOAuthToken(EnvOverride(a)))

\* the object getClaudeStatus returns
StatusResult ==
    [status |-> IF cli.installed THEN "installed" ELSE "not_installed",
     installed |-> cli.installed,
     method |-> cli.method,
     version |-> cli.version,
     path |-> cli.cliPath,
     auth |-> auth]

InitStatus ==
    /\ pc = "detect"
    /\ env \in KeyValues
    /\ apiKeys \in [KeyNames -> KeyValues]
    /\ cli = NotInstalled
    /\ auth = <<>>
    /\ EditorOff /\ UiOff

\* the search for the CLI, up to its last await
DetectCli ==
    /\ pc = "detect"
    /\ \E stdout \in FindOutputs, common \in {NULL, <<"c">>},
          versionOut \in VersionOutputs :
           cli' = FindCli(stdout, common, versionOut)
    /\ pc' = "auth"
    /\ UNCHANGED <<env, apiKeys, auth, editorVars, uiVars>>

\* let auth = {...}, up to the read of stats-cache.json
InitAuth ==
    /\ pc = "auth"
    /\ auth' = NewAuth
    /\ pc' = "stats"
    /\ UNCHANGED <<env, apiKeys, cli, editorVars, uiVars>>

\* stats-cache.json has been read
CheckStats ==
    /\ pc = "stats"
    /\ \E stats \in StatsFiles : auth' = AfterStats(auth, stats)
    /\ pc' = "settings"
    /\ UNCHANGED <<env, apiKeys, cli, editorVars, uiVars>>

\* settings.json and the projects directory have been looked up
CheckSettings ==
    /\ pc = "settings"
    /\ \E hasSettings \in BOOLEAN, sessions \in ProjectsDirs :
           auth' = AfterSettings(auth, hasSettings, sessions)
    /\ pc' = "credentials1"
    /\ UNCHANGED <<env, apiKeys, cli, editorVars, uiVars>>

\* one iteration of the credentials loop: .credentials.json, then
\* credentials.json
CheckCredentials ==
    /\ pc \in {"credentials1", "credentials2"}
    /\ \E credentials \in CredentialsFiles :
           /\ auth' = AfterCredentials(auth, credentials)
           /\ pc' = IF Breaks(credentials) \/ pc = "credentials2"
                    THEN "resolve" ELSE "credentials2"
    /\ UNCHANGED <<env, apiKeys, cli, editorVars, uiVars>>

\* from the end of the credentials loop to the return: no await
Resolve ==
    /\ pc = "resolve"
    /\ auth' = ResolveAuth(auth)
    /\ pc' = "done"
    /\ UNCHANGED <<env, apiKeys, cli, editorVars, uiVars>>

\* another handler of the server stores or clears a key while the call
\* is suspended
StoreKey(provider, value) ==
    /\ pc \notin {"off", "done"}
    /\ apiKeys[provider] # value
    /\ apiKeys' = [apiKeys EXCEPT ![provider] = value]
    /\ UNCHANGED <<pc, env, cli, auth, editorVars, uiVars>>

NextStatus ==
    \/ DetectCli
    \/ InitAuth
    \/ CheckStats
    \/ CheckSettings
    \/ CheckCredentials
    \/ Resolve
    \/ \E provider \in KeyNames, value \in KeyValues : StoreKey(provider, value)

SpecStatus == InitStatus /\ [][NextStatus]_vars

-----------------------------------------------------------------------------
(* Properties of getClaudeStatus                                           *)

\* the call returns: the step from the end of the credentials loop
ResolveStep == pc = "resolve" /\ pc' = "done"

\* a source the code consults before the in-memory store has authenticated
\* the call: the stats cache, the projects directory, a credentials file,
\* or the environment variable
EarlierSource(a) == a.authenticated \/ a.hasEnvApiKey

\* the in-memory store sets auth.method only when no earlier source
\* authenticated, and the stored API key only when the stored OAuth token
\* did not
C11_StoredKeysLast ==
    /\ ResolveStep /\ EarlierSource(auth)
           => auth'.method = IF auth.hasEnvApiKey THEN "api_key_env" ELSE auth.method
    /\ ResolveStep /\ ~EarlierSource(auth) /\ Truthy(getApiKey("anthropic_oauth_token"))
           => auth'.method = "oauth_token"

\* in a returned result, auth.authenticated is true exactly when auth.method
\* is not 'none'
C11_MethodIffAuthenticated ==
    pc = "done" =>
        (StatusResult.auth.authenticated <=> StatusResult.auth.method # "none")

\* C11 as stated: whenever ANTHROPIC_API_KEY is set (to any value, the empty
\* string included), the returned auth has authenticated = true and method =
\* 'api_key_env' whatever the files and the in-memory store hold; the
\* in-memory OAuth token and API key set auth.method only when no earlier
\* source authenticated; and auth.authenticated is true exactly when
\* auth.method is not 'none'.
C11_EnvKeySet ==
    /\ [](pc = "done" /\ env # NULL
              => /\ StatusResult.auth.authenticated
                 /\ StatusResult.auth.method = "api_key_env")
    /\ []C11_MethodIffAuthenticated
    /\ [][C11_StoredKeysLast]_vars

\* C11, amended: whenever ANTHROPIC_API_KEY is set to a non-empty value, the
\* returned auth has authenticated = true and method = 'api_key_env' whatever
\* the stats cache, the projects directory, the credentials files and the
\* in-memory store hold; the in-memory OAuth token and API key set
\* auth.method only when no earlier source authenticated; and in every
\* returned result auth.authenticated is true exactly when auth.method is
\* not 'none'.
C11_AuthPrecedence ==
    /\ [](pc = "done" /\ env # NULL /\ env # <<>>
              => /\ StatusResult.auth.authenticated
                 /\ StatusResult.auth.method = "api_key_env")
    /\ []C11_MethodIffAuthenticated
    /\ [][C11_StoredKeysLast]_vars

\* a call has returned 'api_key_env' although the stats cache, a credentials
\* file and the in-memory store all offered another method
C11_Witness ==
    /\ pc = "done"
    /\ Truthy(env)
    /\ auth.hasCliAuth /\ auth.hasCredentialsFile /\ auth.oauthTokenValid
    /\ Truthy(getApiKey("anthropic_oauth_token")) /\ Truthy(getApiKey("anthropic"))
    /\ auth.method = "api_key_env"

-----------------------------------------------------------------------------
(* useSidebarAutoCollapse: the hook that closes the sidebar on a small     *)
(* viewport.  The store holds sidebarOpen; a render of the component reads *)
(* it; the effect of a render runs later, after the commit, with the       *)
(* sidebarOpen of that render in its closure; a 'change' event of the      *)
(* media query calls the listener the last effect registered.  Store       *)
(* updates, renders, effects and events are separate tasks of the browser. *)

\* the number of user toggles, viewport changes and unmounts of one run
MaxEvents == 4

\* toggleSidebar(): the store flips sidebarOpen
toggleSidebar(open) == ~open

\* handleResize of the effect whose render saw sidebarOpen = captured:
\* the store's sidebarOpen after the call, with the media query at small
handleResize(captured, small, open) ==
    IF small /\ captured THEN toggleSidebar(open) ELSE open

\* the record of a call of toggleSidebar by handleResize: the media query
\* and the store at the moment of the call; without a call, the last record
\* stays
CallRecord(captured, small, open) ==
    IF small /\ captured THEN [matches |-> small, open |-> open] ELSE hookCall

\* the effect of the latest render has not run yet
EffectPending == rendered # <<>> /\ listeners # {rendered[1]}

InitSidebar ==
    /\ sidebarOpen \in BOOLEAN
    /\ mediaMatches \in BOOLEAN
    /\ rendered = <<>>
    /\ listeners = {}
    /\ hookCall = <<>>
    /\ events = 0
    /\ EditorOff /\ StatusOff

\* the component mounts, or renders again because sidebarOpen changed;
\* React runs the pending effect of a render before the next render
Render ==
    /\ ~EffectPending
    /\ rendered # <<sidebarOpen>>
    /\ rendered' = <<sidebarOpen>>
    /\ UNCHANGED <<sidebarOpen, mediaMatches, listeners, hookCall, events,
                   editorVars, statusVars>>

\* the effect of the latest render: the cleanup of the previous effect
\* removes its listener, then handleResize() and addEventListener
RunEffect ==
    /\ EffectPending
    /\ sidebarOpen' = handleResize(rendered[1], mediaMatches, sidebarOpen)
    /\ hookCall' = CallRecord(rendered[1], mediaMatches, sidebarOpen)
    /\ listeners' = {rendered[1]}
    /\ UNCHANGED <<mediaMatches, rendered, events, editorVars, statusVars>>

\* the viewport crosses 1024px: the media query changes and its 'change'
\* event calls the registered listener
MediaChange ==
    /\ events < MaxEvents
    /\ mediaMatches' = ~mediaMatches
    /\ IF listeners = {}
       THEN UNCHANGED <<sidebarOpen, hookCall>>
       ELSE \E captured \in listeners :
                /\ sidebarOpen' = handleResize(captured, mediaMatches', sidebarOpen)
                /\ hookCall' = CallRecord(captured, mediaMatches', sidebarOpen)
    /\ events' = events + 1
    /\ UNCHANGED <<rendered, listeners, editorVars, statusVars>>

\* the user toggles the sidebar
UserToggle ==
    /\ events < MaxEvents
    /\ sidebarOpen' = toggleSidebar(sidebarOpen)
    /\ events' = events + 1
    /\ UNCHANGED <<mediaMatches, rendered, listeners, hookCall, editorVars, statusVars>>

\* the component unmounts: the cleanup of the last effect removes its
\* listener
Unmount ==
    /\ events < MaxEvents
    /\ rendered # <<>>
    /\ rendered' = <<>>
    /\ listeners' = {}
    /\ events' = events + 1
    /\ UNCHANGED <<sidebarOpen, mediaMatches, hookCall, editorVars, statusVars>>

NextSidebar ==
    \/ Render
    \/ RunEffect
    \/ MediaChange
    \/ UserToggle
    \/ Unmount

SpecSidebar == InitSidebar /\ [][NextSidebar]_vars

-----------------------------------------------------------------------------
(* Properties of useSidebarAutoCollapse                                    *)

\* C12: the hook only ever collapses: across any interleaving of user
\* toggles, 'change' events of the media query and effect re-runs and
\* cleanups, the hook calls toggleSidebar only at a moment when the viewport
\* matches (max-width: 1024px) and the sidebar is open, so it never re-opens
\* a closed sidebar.  (The claim's second half, that an open sidebar on a
\* small viewport is eventually closed, is a liveness statement; the first
\* half already fails.)
C12_OnlyCollapses ==
    hookCall # <<>> => hookCall.matches /\ hookCall.open

====
